---- MODULE Spec2Model ----
(***************************************************************************)
(* Model of src/app.py: a Flask application that reads an uploaded CSV     *)
(* file into a pandas DataFrame, selects the rows that are duplicated      *)
(* (DataFrame.duplicated(keep=False)), keeps their CSV text in the Flask   *)
(* session and serves that text from /download_duplicates.                 *)
(*                                                                         *)
(* Text is modelled at the level of CSV fields: a file, and a CSV string   *)
(* produced by to_csv, is a sequence of lines, each line a sequence of     *)
(* field texts.  A parsed cell value is a pair <<dtype, repr>>.            *)
(* Record fields are written in alphabetical order throughout.             *)
(***************************************************************************)
EXTENDS Integers, Sequences, FiniteSets, TLC

\* Largest number of data rows of an uploaded file.
MaxRows == 2

\* Largest number of data rows of a file uploaded on its own.
MaxTableRows == 3

\* The sessions (one signed cookie each) that send requests.
Sessions == {"A", "B"}

\* The header line of every uploaded file.
Header == <<"X", "Y">>

\* Field texts of the uploaded files, per column, when requests of several
\* sessions interleave.
Cells == <<{"1"}, {"", "1"}>>

\* Field texts of the uploaded files, per column, of the single uploads.
TableCells == <<{"", "1", "1.0", "x"}, {"", "1"}>>

\* The most data rows of a file uploaded to the session that shows row order.
MaxOrderRows == 4

\* The field texts of those files: enough for two groups of equal rows that
\* alternate.
OrderCells == <<{"1", "x"}, {"", "1"}>>

\* Texts the CSV parser converts to a number.
IntTexts == {"1"}
FloatTexts == {"1.0"}

NaN == <<"nan", "">>

----------------------------------------------------------------------------
(* Sequences helpers *)

Range(s) == {s[i] : i \in DOMAIN s}

SeqsUpTo(S, n) == UNION {[1..k -> S] : k \in 0..n}

\* The function f on 1..n as a tuple (a value, not a rule that is evaluated
\* again at every use).
AsSeq(f) == <<>> \o f

\* The subsequence of s at the positions where mask is TRUE.
RECURSIVE Select(_, _)
Select(s, mask) ==
    IF s = <<>> THEN <<>>
    ELSE (IF mask[1] THEN <<s[1]>> ELSE <<>>) \o Select(Tail(s), Tail(mask))

----------------------------------------------------------------------------
(* pandas *)

\* The row widths the tokenizer accepts: a line with more fields than the
\* header (and than the first data line) is "Error tokenizing data".
Tokenizes(file) ==
    /\ Len(file) >= 1
    /\ \A k \in 2..Len(file) : Len(file[k]) <= Len(file[1])

\* pd.read_csv raises (EmptyDataError on a file without a header line,
\* ParserError on a line with too many fields).
read_csv_raises(file) == ~Tokenizes(file)

\* Field c of data line k, a short line being padded with missing values.
Field(file, k, c) == IF c <= Len(file[k]) THEN file[k][c] ELSE ""

\* The dtype read_csv infers for column c: int64 when every field is an
\* integer text, float64 when every field is a number or missing, object
\* otherwise.
ColumnDtype(file, c) ==
    LET texts == {Field(file, k, c) : k \in 2..Len(file)}
    IN  IF texts # {} /\ \A t \in texts : t \in IntTexts THEN "int64"
        ELSE IF \A t \in texts : t \in IntTexts \/ t \in FloatTexts \/ t = ""
             THEN "float64"
        ELSE "object"

\* repr of the float a numeric text parses to.
FloatRepr(text) == IF text = "1" THEN "1.0" ELSE text

\* The value a field text becomes in a column of the given dtype.
ParseCell(text, dtype) ==
    IF text = "" THEN NaN
    ELSE IF dtype = "int64" THEN <<"int64", text>>
    ELSE IF dtype = "float64" THEN <<"float64", FloatRepr(text)>>
    ELSE <<"object", text>>

\* pd.read_csv(file): a DataFrame with the header's columns, a RangeIndex
\* and one row per data line.
read_csv(file) ==
    LET n == Len(file) - 1
        w == Len(file[1])
    IN  [columns |-> file[1],
         index   |-> AsSeq([k \in 1..n |-> k - 1]),
         rows    |-> AsSeq([k \in 1..n |->
                        AsSeq([c \in 1..w |->
                                 ParseCell(Field(file, k + 1, c),
                                           ColumnDtype(file, c))])])]

\* duplicated with keep='first': the first member of a group is not marked.
duplicated_keep_first(df) ==
    AsSeq([i \in 1..Len(df.rows) |->
        \E j \in 1..(i - 1) : df.rows[j] = df.rows[i]])

\* DataFrame.duplicated(keep=False): rows are grouped by their values
\* (missing values equal to each other) and every member of a group of two
\* or more is marked.
duplicated(df) ==
    AsSeq([i \in 1..Len(df.rows) |->
        Cardinality({j \in 1..Len(df.rows) : df.rows[j] = df.rows[i]}) >= 2])

\* Boolean indexing followed by a regrouping: the selected rows of one group
\* of equal rows are put together, the groups in the order of their first row.
BoolIndex_grouped(df, mask) ==
    LET n == Len(df.rows)
        S == {p \in 1..n : mask[p]}
        key(p) == CHOOSE q \in 1..n :
                      /\ df.rows[q] = df.rows[p]
                      /\ \A z \in 1..(q - 1) : df.rows[z] # df.rows[p]
        before(q, p) == key(q) < key(p) \/ (key(q) = key(p) /\ q < p)
        at(r) == CHOOSE p \in S : Cardinality({q \in S : before(q, p)}) = r - 1
    IN  [columns |-> df.columns,
         index |-> AsSeq([r \in 1..Cardinality(S) |-> df.index[at(r)]]),
         rows |-> AsSeq([r \in 1..Cardinality(S) |-> df.rows[at(r)]])]

\* df[mask]: boolean indexing keeps the selected rows with their labels.
BoolIndex(df, mask) ==
    [columns |-> df.columns,
     index   |-> Select(df.index, mask),
     rows    |-> Select(df.rows, mask)]

\* DataFrame.empty: some axis has length 0.
empty(df) == Len(df.index) = 0 \/ Len(df.columns) = 0

\* The text to_csv writes for a value: nothing for a missing value, the
\* repr of a number, the string itself.
CsvField(v) == v[2]

\* to_csv with index=True: the labels are written as a first column without
\* a name.
to_csv_with_index(df) ==
    <<(<<"">> \o df.columns)>> \o
    [k \in 1..Len(df.rows) |->
        <<ToString(df.index[k])>> \o
        AsSeq([c \in 1..Len(df.columns) |-> CsvField(df.rows[k][c])])]

\* DataFrame.to_csv(index=False): the header line, then one line per row.
to_csv(df) ==
    <<df.columns>> \o
    [k \in 1..Len(df.rows) |->
        AsSeq([c \in 1..Len(df.columns) |-> CsvField(df.rows[k][c])])]

\* The text to_html shows for a value.
HtmlField(v) == IF v = NaN THEN "NaN" ELSE v[2]

\* DataFrame.to_html(index=False): the header cells and the body cells.
to_html(df) ==
    [tbody |-> AsSeq([k \in 1..Len(df.rows) |->
                  AsSeq([c \in 1..Len(df.columns) |->
                           HtmlField(df.rows[k][c])])]),
     thead |-> df.columns]

----------------------------------------------------------------------------
(* State *)

VARIABLES
    session,     \* per session: the Flask session dictionary
    request,     \* the request handled last
    response,    \* the response to it
    df,          \* upload_file's local df in that request (if it got there)
    duplicates,  \* upload_file's local duplicates, likewise
    lastUpload,  \* per session: what the last upload that parsed found
    lastOk       \* per session: the CSV text of the duplicates of the last
                 \* upload answered 200 that found duplicates (<<>>: none)

vars == <<session, request, response, df, duplicates, lastUpload, lastOk>>

\* A session dictionary: the keys present and their values.
EmptySession ==
    [duplicates_csv |-> <<>>, has_duplicates |-> FALSE, keys |-> {}]

\* session.get(key, default) for the two keys the handlers read; None is the
\* empty text <<>> (both are falsy).
GetHasDuplicates(sess) ==
    IF "has_duplicates" \in sess.keys THEN sess.has_duplicates ELSE FALSE

GetDuplicatesCsv(sess) ==
    IF "duplicates_csv" \in sess.keys THEN sess.duplicates_csv ELSE <<>>

EmptyFrame == [columns |-> <<>>, index |-> <<>>, rows |-> <<>>]

NoHtml == [tbody |-> <<>>, thead |-> <<>>]

\* A request as recorded in the state.  An upload is <<has a file part,
\* filename, content, rendering the page raises>>; a download carries nothing.
NoUpload == <<FALSE, "", <<>>, FALSE>>

ToRequest(route, s, u) ==
    [file |-> u[3], filename |-> u[2], has_file_part |-> u[1],
     render_raises |-> u[4], route |-> route, sid |-> s]

\* A response: the attachment's text, the values handed to results.html,
\* the status and the message (or the name of the page or attachment).
Response(status, text, data, original, dups, flag) ==
    [data |-> data, duplicate_data |-> dups, has_duplicates |-> flag,
     original_data |-> original, status |-> status, text |-> text]

Init ==
    /\ session = [s \in Sessions |-> EmptySession]
    /\ request = ToRequest("none", "A", NoUpload)
    /\ response = Response(0, "none", <<>>, NoHtml, NoHtml, FALSE)
    /\ df = EmptyFrame
    /\ duplicates = EmptyFrame
    /\ lastUpload = [s \in Sessions |-> [csv |-> <<>>, found |-> "none"]]
    /\ lastOk = [s \in Sessions |-> <<>>]

----------------------------------------------------------------------------
(* upload_file *)

\* Partition with keep='first': of each group of equal rows the first one is
\* left out.
Partition_keep_first(frame) == BoolIndex(frame, duplicated_keep_first(frame))

\* The rows upload_file selects: those marked by duplicated(keep=False).
Partition(frame) == BoolIndex(frame, duplicated(frame))

\* StoreDuplicates whose else branch sets the flag and keeps the CSV text.
StoreDuplicates_no_pop(sess, dups) ==
    IF ~empty(dups)
    THEN [duplicates_csv |-> to_csv(dups),
          has_duplicates |-> TRUE,
          keys |-> (sess.keys \cup {"duplicates_csv"}) \cup {"has_duplicates"}]
    ELSE [duplicates_csv |-> sess.duplicates_csv,
          has_duplicates |-> FALSE,
          keys |-> sess.keys \cup {"has_duplicates"}]

\* StoreDuplicates without its else branch: nothing is cleared.
StoreDuplicates_no_clear(sess, dups) ==
    IF ~empty(dups)
    THEN [duplicates_csv |-> to_csv(dups),
          has_duplicates |-> TRUE,
          keys |-> (sess.keys \cup {"duplicates_csv"}) \cup {"has_duplicates"}]
    ELSE sess

\* The session after the handler's write: the CSV text and a TRUE flag when
\* there are duplicates, a FALSE flag and no CSV text otherwise.
StoreDuplicates(sess, dups) ==
    IF ~empty(dups)
    THEN [duplicates_csv |-> to_csv(dups),
          has_duplicates |-> TRUE,
          keys |-> (sess.keys \cup {"duplicates_csv"}) \cup {"has_duplicates"}]
    ELSE [duplicates_csv |-> <<>>,
          has_duplicates |-> FALSE,
          keys |-> (sess.keys \cup {"has_duplicates"}) \ {"duplicates_csv"}]

\* UploadStage without the check of the filename.
UploadStage_no_filename_check(has_part, filename, file, render_raises) ==
    IF ~has_part THEN "no_part"
    ELSE IF read_csv_raises(file) THEN "parse_error"
    ELSE IF render_raises THEN "render_error"
    ELSE "ok"

\* How far the handler gets with a request.
UploadStage(has_part, filename, file, render_raises) ==
    IF ~has_part THEN "no_part"
    ELSE IF filename = "" THEN "no_name"
    ELSE IF read_csv_raises(file) THEN "parse_error"
    ELSE IF render_raises THEN "render_error"
    ELSE "ok"

\* The stages at which the handler has passed its session write.
Wrote(stage) == stage = "render_error" \/ stage = "ok"

\* The status and the message of each return statement.
UploadStatus(stage) ==
    IF stage = "no_part" \/ stage = "no_name" THEN 400
    ELSE IF stage = "parse_error" \/ stage = "render_error" THEN 500
    ELSE 200

UploadText(stage) ==
    IF stage = "no_part" THEN "No file part"
    ELSE IF stage = "no_name" THEN "No selected file"
    ELSE IF stage = "ok" THEN "results.html"
    ELSE "Error processing file"

\* UploadResponse with the flag taken from df instead of duplicates.
UploadResponse_flag_of_df(stage, frame, dups) ==
    [data |-> <<>>,
     duplicate_data |-> IF stage = "ok" /\ ~empty(dups) THEN to_html(dups)
                        ELSE NoHtml,
     has_duplicates |-> stage = "ok" /\ ~empty(frame),
     original_data |-> IF stage = "ok" THEN to_html(frame) ELSE NoHtml,
     status |-> UploadStatus(stage), text |-> UploadText(stage)]

\* The response: a message, or the results page with both tables as HTML
\* and the flag.
UploadResponse(stage, frame, dups) ==
    Response(UploadStatus(stage), UploadText(stage), <<>>,
             IF stage = "ok" THEN to_html(frame) ELSE NoHtml,
             IF stage = "ok" /\ ~empty(dups) THEN to_html(dups) ELSE NoHtml,
             stage = "ok" /\ ~empty(dups))

\* UploadSession with the buffer cleared before the file is parsed.
UploadSession_clear_first(sess, stage, dups) ==
    IF Wrote(stage) THEN StoreDuplicates(sess, dups)
    ELSE IF stage = "parse_error" THEN StoreDuplicates(sess, EmptyFrame)
    ELSE sess

\* The session dictionary Flask saves with the response.
UploadSession(sess, stage, dups) ==
    IF Wrote(stage) THEN StoreDuplicates(sess, dups) ELSE sess

\* SaveSession with one dictionary shared by all sessions.
SaveSession_global(s, sess) == [t \in Sessions |-> sess]

\* The sessions after a request of session s: only its own dictionary is
\* replaced.
SaveSession(s, sess) == [session EXCEPT ![s] = sess]

StageOf(req) ==
    UploadStage(req.has_file_part, req.filename, req.file, req.render_raises)

\* What an upload that parsed found, for lastUpload.
Found(dups) ==
    [csv |-> IF empty(dups) THEN <<>> ELSE to_csv(dups),
     found |-> IF empty(dups) THEN "zero" ELSE "dups"]

\* The handler's locals on request u: the stage it reaches, df and
\* duplicates (empty frames when it does not get to them).
Locals(stage, frame) ==
    [df |-> frame,
     duplicates |-> IF Wrote(stage) THEN Partition(frame) ELSE EmptyFrame,
     stage |-> stage]

Parse(stage, file) ==
    Locals(stage, IF Wrote(stage) THEN read_csv(file) ELSE EmptyFrame)

Run(u) == Parse(UploadStage(u[1], u[2], u[3], u[4]), u[3])

\* The handler's effect on the state, its locals being run.
Handle(s, u, run) ==
    /\ request' = ToRequest("upload", s, u)
    /\ response' = UploadResponse(run.stage, run.df, run.duplicates)
    /\ session' = SaveSession(s, UploadSession(session[s], run.stage,
                                               run.duplicates))
    /\ df' = run.df
    /\ duplicates' = run.duplicates
    /\ lastUpload' =
         IF Wrote(run.stage)
         THEN [lastUpload EXCEPT ![s] = Found(run.duplicates)]
         ELSE lastUpload
    /\ lastOk' =
         IF run.stage = "ok" /\ ~empty(run.duplicates)
         THEN [lastOk EXCEPT ![s] = to_csv(run.duplicates)]
         ELSE lastOk

\* The handler on request u of session s.
upload_file(s, u) == Handle(s, u, Run(u))

----------------------------------------------------------------------------
(* download_duplicates *)

\* Which return statement the handler reaches.
DownloadStage(sess) ==
    IF ~GetHasDuplicates(sess) THEN "no_duplicates"
    ELSE IF GetDuplicatesCsv(sess) = <<>> THEN "not_available"
    ELSE "file"

DownloadText(stage) ==
    IF stage = "no_duplicates"
    THEN "No duplicates found in the last uploaded file."
    ELSE IF stage = "not_available"
    THEN "Duplicate data not available. Please upload a file first."
    ELSE "duplicates.csv"

\* The response: a message with status 400, or the CSV text as attachment.
DownloadResponse(sess) ==
    Response(IF DownloadStage(sess) = "file" THEN 200 ELSE 400,
             DownloadText(DownloadStage(sess)),
             IF DownloadStage(sess) = "file" THEN GetDuplicatesCsv(sess)
             ELSE <<>>,
             NoHtml, NoHtml, FALSE)

\* DownloadSession with the CSV text popped once it has been read.
DownloadSession_pop(sess) ==
    [duplicates_csv |-> <<>>, has_duplicates |-> sess.has_duplicates,
     keys |-> sess.keys \ {"duplicates_csv"}]

\* The session dictionary after a download: the handler only reads it.
DownloadSession(sess) == sess

download_duplicates(s) ==
    /\ request' = ToRequest("download", s, NoUpload)
    /\ response' = DownloadResponse(session[s])
    /\ session' = SaveSession(s, DownloadSession(session[s]))
    /\ df' = EmptyFrame
    /\ duplicates' = EmptyFrame
    /\ UNCHANGED <<lastUpload, lastOk>>

----------------------------------------------------------------------------
(* The requests *)

\* The data rows over the given field texts, one set per column.
RowsOver(cells) ==
    {row \in [1..Len(Header) -> UNION Range(cells)] :
        \A c \in 1..Len(Header) : row[c] \in cells[c]}

\* The uploaded files: no content at all, the header with up to n data rows,
\* and a file whose second data line has one field too many.
WellFormedFiles(cells, n) ==
    {<<Header>> \o rows : rows \in SeqsUpTo(RowsOver(cells), n)}

RaggedFile == <<Header, <<"1", "1">>, <<"1", "1", "1">> >>

Files(cells, n) == WellFormedFiles(cells, n) \cup {<<>>, RaggedFile}

\* The upload requests: without a file part, with an empty filename, or with
\* a named file, whose page may fail to render once the file has parsed.
UploadRequests(files) ==
    {NoUpload, <<TRUE, "", <<>>, FALSE>>}
    \cup {<<TRUE, "data.csv", file, FALSE>> : file \in files}
    \cup {<<TRUE, "data.csv", file, TRUE>> :
            file \in {f \in files : ~read_csv_raises(f)}}

\* The uploads when requests of several sessions interleave.
SessionUploads == UploadRequests(Files(Cells, MaxRows))

\* The single uploads: larger tables, the page always rendering.
TableUploads ==
    {u \in UploadRequests(Files(TableCells, MaxTableRows)) : ~u[4]}

Upload(s, uploads) ==
    \E u \in uploads : upload_file(s, u)

Next ==
    \E s \in Sessions :
        \/ Upload(s, SessionUploads)
        \/ download_duplicates(s)

Spec == Init /\ [][Next]_vars

\* One upload into a fresh session, its page rendering, then downloads.
NextTable ==
    \/ request.route = "none" /\ Upload("A", TableUploads)
    \/ request.route # "none" /\ download_duplicates("A")

SpecTable == Init /\ [][NextTable]_vars

\* The uploads of the session that shows row order: rendering succeeds.
OrderUploads ==
    {u \in UploadRequests(Files(OrderCells, MaxOrderRows)) : ~u[4]}

\* One upload into a new session, then downloads.
NextOrder ==
    \/ request.route = "none" /\ Upload("A", OrderUploads)
    \/ request.route # "none" /\ download_duplicates("A")

SpecOrder == Init /\ [][NextOrder]_vars

----------------------------------------------------------------------------
(* Claims *)

IsUpload(req) == req.route = "upload"

IsDownload(req) == req.route = "download"

\* Rows i and j of frame are equal in every column.
SameRow(frame, i, j) ==
    \A c \in 1..Len(frame.columns) : frame.rows[i][c] = frame.rows[j][c]

\* No two rows of frame are equal.
AllDistinct(frame) ==
    \A i, j \in 1..Len(frame.rows) : i # j => ~SameRow(frame, i, j)

\* C1: after an upload answered with the results page, the duplicate view
\* holds row i of the table (under its label, with its values) if and only
\* if some other row j # i is equal to row i in every column.
C1_DuplicatesIffRepeated ==
    (IsUpload(request) /\ response.status = 200) =>
        /\ \A i \in 1..Len(df.rows) :
             (\E k \in 1..Len(duplicates.index) :
                 duplicates.index[k] = df.index[i])
             <=> (\E j \in 1..Len(df.rows) : j # i /\ SameRow(df, i, j))
        /\ \A k \in 1..Len(duplicates.index) :
             \E i \in 1..Len(df.rows) :
                 /\ df.index[i] = duplicates.index[k]
                 /\ duplicates.rows[k] = df.rows[i]

\* A table of three rows, the first and the third equal, the second equal
\* to them in column X only: the view holds the rows labelled 0 and 2.
C1_Witness ==
    /\ IsUpload(request) /\ response.status = 200
    /\ Len(df.rows) = 3
    /\ df.rows[1] = df.rows[3]
    /\ df.rows[2][1] = df.rows[1][1]
    /\ df.rows[2][2] # df.rows[1][2]
    /\ duplicates.index = <<0, 2>>

\* C2: a download is answered 400 without an attachment whenever its
\* session has had no upload that parsed, or the last one found no
\* duplicates.
C2_DownloadFailsWithoutDuplicates ==
    (/\ IsDownload(request)
     /\ (\/ lastUpload[request.sid].found = "none"
         \/ lastUpload[request.sid].found = "zero"))
        => (response.status = 400 /\ response.data = <<>>)

\* A download that fails after an upload without duplicates, in a session
\* where an earlier upload had found duplicates.
C2_Witness ==
    /\ IsDownload(request)
    /\ lastUpload[request.sid].found = "zero"
    /\ lastOk[request.sid] # <<>>
    /\ response.status = 400

\* C3 (as claimed): the attachment of a download is the CSV text of the
\* duplicates of the last upload of the session that was answered 200 and
\* found duplicates.
C3_DownloadIsLastSuccessfulUpload ==
    (IsDownload(request) /\ response.status = 200)
        => response.data = lastOk[request.sid]

\* C4 (as claimed): an upload whose content does not parse is answered with
\* a client error status (4xx) and a message.
C4_ParseErrorIsClientError ==
    (IsUpload(request) /\ StageOf(request) = "parse_error")
        => (response.status \in 400..499 /\ response.text # "")

\* C5: an upload whose content does not parse leaves every session
\* dictionary as it was.
C5_ParseErrorWritesNothing ==
    [][(IsUpload(request') /\ StageOf(request') = "parse_error")
            => session' = session]_vars

\* An upload that did not parse, in a session that holds CSV text.
C5_Witness ==
    /\ IsUpload(request) /\ StageOf(request) = "parse_error"
    /\ "duplicates_csv" \in session[request.sid].keys
    /\ session[request.sid].has_duplicates

\* C6 (as claimed): an upload that reports an error leaves the session
\* dictionaries as they were; an upload answered 200 leaves in its session
\* the CSV text of its duplicates, or no CSV text and a FALSE flag.
C6_UploadIsAtomic ==
    [][IsUpload(request') =>
          IF response'.status = 200
          THEN session'[request'.sid] =
                   StoreDuplicates(session[request'.sid], duplicates')
          ELSE session' = session]_vars

\* C7: an upload without a file part or with an empty filename is answered
\* 400 and leaves the session dictionaries as they were, so that a download
\* is answered as it would have been before.
C7_MissingInputHasNoEffect ==
    [][(IsUpload(request') /\ (~request'.has_file_part \/ request'.filename = ""))
          => /\ response'.status = 400
             /\ session' = session
             /\ DownloadResponse(session'[request'.sid])
                    = DownloadResponse(session[request'.sid])]_vars

\* An upload with an empty filename, in a session that holds CSV text.
C7_Witness ==
    /\ IsUpload(request) /\ request.has_file_part /\ request.filename = ""
    /\ response.status = 400
    /\ "duplicates_csv" \in session[request.sid].keys

\* C8: a download leaves the session dictionaries as they were, and a
\* download that follows a download of the same session has its response.
C8_DownloadDoesNotConsume ==
    [][IsDownload(request') =>
          /\ session' = session
          /\ (IsDownload(request) /\ request.sid = request'.sid)
                => response' = response]_vars

\* A download that returned the CSV text, which the session still holds.
C8_Witness ==
    /\ IsDownload(request) /\ response.status = 200
    /\ response.data # <<>>
    /\ GetDuplicatesCsv(session[request.sid]) = response.data

\* C9: a request leaves the dictionary of every other session as it was,
\* and the attachment of a download is the CSV text of the last upload of
\* its own session, which found duplicates.
C9_SessionsAreIsolated ==
    [][/\ \A s \in Sessions :
             s # request'.sid => session'[s] = session[s]
       /\ (IsDownload(request') /\ response'.status = 200)
             => /\ lastUpload'[request'.sid].found = "dups"
                /\ response'.data = lastUpload'[request'.sid].csv]_vars

\* A download of session B that returns B's CSV text while session A holds
\* another one.
C9_Witness ==
    /\ IsDownload(request) /\ request.sid = "B" /\ response.status = 200
    /\ "duplicates_csv" \in session["A"].keys
    /\ session["A"].duplicates_csv # response.data

\* C10: after an upload answered with the results page, there are no
\* duplicate rows, the flag of the page is FALSE and the flag of the session
\* is FALSE, each if and only if no two rows of the table are equal.
C10_NoDuplicatesIffAllDistinct ==
    (IsUpload(request) /\ response.status = 200) =>
        /\ Len(duplicates.rows) = 0 <=> AllDistinct(df)
        /\ ~response.has_duplicates <=> AllDistinct(df)
        /\ "has_duplicates" \in session[request.sid].keys
        /\ ~session[request.sid].has_duplicates <=> AllDistinct(df)

\* An upload of two different rows into a session where an earlier upload
\* had found duplicates.
C10_Witness ==
    /\ IsUpload(request) /\ response.status = 200
    /\ Len(df.rows) = 2 /\ df.rows[1] # df.rows[2]
    /\ ~response.has_duplicates
    /\ ~session[request.sid].has_duplicates
    /\ lastOk[request.sid] # <<>>

\* C11: after an upload answered with the results page, the rows of the
\* duplicate view are rows of the table, under their labels, and stand in
\* the view in the order in which they stand in the table.
C11_DuplicatesKeepTableOrder ==
    (IsUpload(request) /\ response.status = 200) =>
        /\ \A k \in 1..Len(duplicates.rows) :
             \E i \in 1..Len(df.rows) :
                 /\ df.index[i] = duplicates.index[k]
                 /\ df.rows[i] = duplicates.rows[k]
        /\ \A k, l \in 1..Len(duplicates.rows) :
             k < l =>
                 \A i, j \in 1..Len(df.rows) :
                     (/\ df.index[i] = duplicates.index[k]
                      /\ df.index[j] = duplicates.index[l]) => i < j
        /\ response.duplicate_data = IF empty(duplicates) THEN NoHtml
                                     ELSE to_html(duplicates)

\* A table of two groups of equal rows that alternate: the view holds the
\* four rows as they stand, not group after group.
C11_Witness ==
    /\ IsUpload(request) /\ response.status = 200
    /\ Len(df.rows) = 4
    /\ df.rows[1] = df.rows[3] /\ df.rows[2] = df.rows[4]
    /\ df.rows[1] # df.rows[2]
    /\ duplicates.index = <<0, 1, 2, 3>>
    /\ duplicates.rows = df.rows

\* C12: an upload of a table without rows that is answered with the results
\* page has no duplicate rows, shows no duplicate table, has the flag FALSE
\* on the page and in the session, and leaves no CSV text in the session,
\* whatever the session held before.
C12_EmptyTableLeavesNoBuffer ==
    (IsUpload(request) /\ response.status = 200 /\ Len(df.rows) = 0) =>
        /\ Len(duplicates.rows) = 0
        /\ response.duplicate_data = NoHtml
        /\ ~response.has_duplicates
        /\ "has_duplicates" \in session[request.sid].keys
        /\ ~session[request.sid].has_duplicates
        /\ "duplicates_csv" \notin session[request.sid].keys
        /\ GetDuplicatesCsv(session[request.sid]) = <<>>
        /\ DownloadStage(session[request.sid]) = "no_duplicates"

\* An upload of the header alone into a session where an earlier upload had
\* stored CSV text.
C12_Witness ==
    /\ IsUpload(request) /\ response.status = 200
    /\ request.file = <<Header>>
    /\ Len(df.rows) = 0
    /\ lastOk[request.sid] # <<>>
    /\ "duplicates_csv" \notin session[request.sid].keys

\* C13: after an upload that found duplicates, the CSV text kept in the
\* session parses, and its rows are all duplicates of one another again:
\* partitioning the parsed text gives every row of it, in its order, as many
\* rows as the duplicate view has.
C13_ExportPartitionsToItself ==
    (IsUpload(request) /\ response.status = 200 /\ ~empty(duplicates)) =>
        /\ session[request.sid].duplicates_csv = to_csv(duplicates)
        /\ ~read_csv_raises(session[request.sid].duplicates_csv)
        /\ Partition(read_csv(session[request.sid].duplicates_csv))
               = read_csv(session[request.sid].duplicates_csv)
        /\ Len(read_csv(session[request.sid].duplicates_csv).rows)
               = Len(duplicates.rows)

\* A table of two equal rows and a third one: the export has the two rows,
\* which parse to other values than the table had (the text column X of the
\* table is an integer column of the export), and both are found again.
C13_Witness ==
    /\ IsUpload(request) /\ response.status = 200
    /\ Len(df.rows) = 3 /\ Len(duplicates.rows) = 2
    /\ duplicates.rows[1][1] = <<"object", "1">>
    /\ read_csv(session[request.sid].duplicates_csv).rows[1][1] = <<"int64", "1">>
    /\ Len(Partition(read_csv(session[request.sid].duplicates_csv)).rows) = 2

\* C14: in every session, at all times, the flag has_duplicates is TRUE if
\* and only if the session holds CSV text that is not empty; so no download
\* passes the check of the flag and then finds no CSV text, and the message
\* of that branch is never sent.
C14_FlagIffBuffer ==
    /\ \A s \in Sessions :
          /\ GetHasDuplicates(session[s])
                <=> (/\ "duplicates_csv" \in session[s].keys
                     /\ session[s].duplicates_csv # <<>>)
          /\ DownloadStage(session[s]) # "not_available"
    /\ response.text # DownloadText("not_available")

\* After uploads that succeeded and that failed, and a download: session A
\* holds the flag and the CSV text of an upload whose page failed to render,
\* session B has the flag FALSE and no CSV text after having held one.
C14_Witness ==
    /\ IsDownload(request) /\ request.sid = "B" /\ response.status = 400
    /\ "has_duplicates" \in session["B"].keys
    /\ ~session["B"].has_duplicates
    /\ "duplicates_csv" \notin session["B"].keys
    /\ lastOk["B"] # <<>>
    /\ session["A"].has_duplicates
    /\ session["A"].duplicates_csv # <<>>
    /\ lastOk["A"] = <<>>

\* C15: the duplicate view of an uploaded table never has exactly one row,
\* each of its rows has an equal row at another place of the view, and each
\* line of the CSV text in the session, after the header, has an equal line
\* at another place of the text.
C15_NeverOneDuplicate ==
    /\ (IsUpload(request) /\ response.status = 200) =>
          /\ Len(duplicates.rows) # 1
          /\ Len(response.duplicate_data.tbody) # 1
          /\ \A k \in 1..Len(duplicates.rows) :
                \E j \in 1..Len(duplicates.rows) :
                    j # k /\ duplicates.rows[j] = duplicates.rows[k]
    /\ \A s \in Sessions :
          /\ Len(GetDuplicatesCsv(session[s])) # 2
          /\ \A k \in 2..Len(GetDuplicatesCsv(session[s])) :
                \E j \in 2..Len(GetDuplicatesCsv(session[s])) :
                    /\ j # k
                    /\ GetDuplicatesCsv(session[s])[j]
                           = GetDuplicatesCsv(session[s])[k]

\* A table of three rows of which two are equal: the view and the CSV text
\* hold the two, the third row has no equal and is in neither.
C15_Witness ==
    /\ IsUpload(request) /\ response.status = 200
    /\ Len(df.rows) = 3
    /\ df.rows[1] # df.rows[2] /\ df.rows[2] = df.rows[3]
    /\ duplicates.index = <<1, 2>>
    /\ Len(response.duplicate_data.tbody) = 2
    /\ Len(GetDuplicatesCsv(session[request.sid])) = 3

====
